---- MODULE Spec2Model ----
(***************************************************************************)
(* A model of the RAG notebook "rag_pipeline (1).ipynb": PDF text          *)
(* extraction, word-window chunking, embedding and flat L2 indexing,       *)
(* nearest-neighbour retrieval and prompt construction.                    *)
(*                                                                         *)
(* Strings are sequences of one-character strings, so that str.split,      *)
(* str.join and the f-string page marker are modelled by what they do to   *)
(* the characters.  Python lists are sequences; Python indices are kept    *)
(* 0-based (and may be negative) and converted where a list is read.       *)
(***************************************************************************)
EXTENDS Integers, Sequences, FiniteSets, TLC

VARIABLES
    pc,               \* position of the notebook's single thread of control
    pages,            \* the PDF: what page.extract_text() does on each page
    file_open,        \* whether the handle of open(pdf_path, "rb") is open
    page_i,           \* i of "for i, page in enumerate(pdf_reader.pages)"
    text,             \* the local "text" of extract_text_from_pdf
    document_text,    \* the string handed to chunk_text
    error,            \* the exception that ended the run, "none" while there is none
    chunk_size,       \* chunk_text's parameter chunk_size
    overlap,          \* chunk_text's parameter overlap
    words,            \* chunk_text's local "words"
    chunks,           \* chunk_text's local "chunks", then the global "chunks"
    start,            \* chunk_text's local "start"
    chunk_embeddings, \* one vector per chunk, as returned by embedder.encode(chunks)
    index,            \* the vectors held by the IndexFlatL2, in insertion order
    k,                \* retrieve_relevant_chunks' parameter k
    query_embedding,  \* embedder.encode([query])[0]
    indices,          \* indices[0] of index.search
    retrieved_chunks, \* the list retrieve_relevant_chunks returns
    generated_response \* generated_text of the text-generation pipeline

vars == <<pc, pages, file_open, page_i, text, document_text, error, chunk_size,
          overlap, words, chunks, start, chunk_embeddings, index, k,
          query_embedding, indices, retrieved_chunks, generated_response>>

extractVars == <<pages, file_open, page_i, text>>
chunkVars == <<chunk_size, overlap, words, chunks, start>>
retrieveVars == <<chunk_embeddings, index, k, query_embedding, indices,
                  retrieved_chunks>>

-----------------------------------------------------------------------------
(* Bounds of the model. *)

MaxUnits == 6      \* text pieces a chunk_text input is made of
MaxW == 4          \* largest chunk_size tried
MaxO == 4          \* largest overlap tried
MaxPages == 3      \* pages of a PDF
MaxN == 3          \* chunks handed to the index cell on its own
MaxK == 4          \* largest k tried
MaxCoord == 2      \* embedding coordinates are 0..MaxCoord

(* Program constants. *)

PipelineChunkSize == 500
PipelineOverlap == 50
PipelineK == 2
EmbDim == 1        \* stands for the embedding dimension of the model

-----------------------------------------------------------------------------
(* Arithmetic and Python's list primitives. *)

Min(a, b) == IF a < b THEN a ELSE b
Max(a, b) == IF a > b THEN a ELSE b

\* ceil(a / b) for b > 0; 0 when a <= 0.
CeilDiv(a, b) == IF a <= 0 THEN 0 ELSE (a + b - 1) \div b

\* A slice bound as Python normalises it: a negative bound counts from the
\* end, and the result is clamped to 0..n.
PyBound(b, n) == IF b < 0 THEN Max(b + n, 0) ELSE Min(b, n)

\* A slice that takes the element at hi as well.
PySliceInclusive(s, lo, hi) ==
    LET l == PyBound(lo, Len(s))
        h == PyBound(hi + 1, Len(s))
    IN  IF l < h THEN SubSeq(s, l + 1, h) ELSE <<>>

\* s[lo:hi] of a Python list.
PySlice(s, lo, hi) ==
    LET l == PyBound(lo, Len(s))
        h == PyBound(hi, Len(s))
    IN  IF l < h THEN SubSeq(s, l + 1, h) ELSE <<>>

\* Whether s[i] is defined for a Python list s (otherwise IndexError).
PyInRange(s, i) == -Len(s) <= i /\ i < Len(s)

\* s[i] of a Python list: a negative i counts from the end.
PyGet(s, i) == IF i >= 0 THEN s[i + 1] ELSE s[Len(s) + i + 1]

-----------------------------------------------------------------------------
(* Strings. *)

IsSpace(c) == c \in {" ", "\n"}

RECURSIVE SplitFrom(_, _, _, _)
SplitFrom(s, i, cur, acc) ==
    IF i > Len(s)
    THEN IF cur = <<>> THEN acc ELSE Append(acc, cur)
    ELSE IF IsSpace(s[i])
         THEN SplitFrom(s, i + 1, <<>>, IF cur = <<>> THEN acc ELSE Append(acc, cur))
         ELSE SplitFrom(s, i + 1, Append(cur, s[i]), acc)

\* s.split(): the maximal runs of non-whitespace characters, in order.
StrSplit(s) == SplitFrom(s, 1, <<>>, <<>>)

RECURSIVE StrJoin(_, _)
\* sep.join(ws)
StrJoin(sep, ws) ==
    IF ws = <<>> THEN <<>>
    ELSE IF Len(ws) = 1 THEN ws[1]
    ELSE ws[1] \o sep \o StrJoin(sep, Tail(ws))

RECURSIVE Concat(_)
\* The concatenation of a sequence of strings.
Concat(ss) == IF ss = <<>> THEN <<>> ELSE Head(ss) \o Concat(Tail(ss))

DigitChar(d) == <<"0", "1", "2", "3", "4", "5", "6", "7", "8", "9">>[d + 1]

RECURSIVE DecStr(_)
\* str(n) for n >= 0, as the f-string formats {i+1}.
DecStr(n) == IF n < 10 THEN <<DigitChar(n)>>
             ELSE DecStr(n \div 10) \o <<DigitChar(n % 10)>>

-----------------------------------------------------------------------------
(* chunk_text *)

\* An off-by-one window: one word short.
WindowEndShort(s, size, n) == Min(s + size - 1, n)

\* end = min(start + chunk_size, len(words))
WindowEnd(s, size, n) == Min(s + size, n)

\* A step that forgets the overlap.
NextStartNoOverlap(s, size, ov) == s + size

\* A step that does not advance.
NextStartStuck(s, size, ov) == s

\* start += (chunk_size - overlap)
NextStart(s, size, ov) == s + (size - ov)

\* The cap on loop iterations explored when the loop does not end by itself.
MaxIter == MaxUnits + 2

\* words = text.split(); chunks = []; start = 0
ChunkCall ==
    /\ pc = "extract_returned"
    /\ words' = StrSplit(document_text)
    /\ chunks' = <<>>
    /\ start' = 0
    /\ pc' = "chunk_loop"
    /\ UNCHANGED <<extractVars, document_text, error, chunk_size, overlap,
                   retrieveVars, generated_response>>

\* One iteration of "while start < len(words)".
ChunkLoop ==
    /\ pc = "chunk_loop"
    /\ start < Len(words)
    /\ Len(chunks) < MaxIter
    /\ LET end == WindowEnd(start, chunk_size, Len(words))
           chunk == StrJoin(<<" ">>, PySlice(words, start, end))
       IN  /\ chunks' = Append(chunks, chunk)
           /\ start' = NextStart(start, chunk_size, overlap)
    /\ UNCHANGED <<pc, extractVars, document_text, error, chunk_size, overlap,
                   words, retrieveVars, generated_response>>

\* The loop condition is false: return chunks.
ChunkReturn ==
    /\ pc = "chunk_loop"
    /\ ~(start < Len(words))
    /\ pc' = "chunk_returned"
    /\ UNCHANGED <<extractVars, document_text, error, chunkVars, retrieveVars,
                   generated_response>>

-----------------------------------------------------------------------------
(* extract_text_from_pdf *)

\* What page.extract_text() can do on a page: return a string, empty for a
\* page with no extractable text, or raise.
PageTexts == { <<>>, <<"a">>, <<"b", " ", "a">> }

PageOutcomes ==
    {[raises |-> FALSE, page_text |-> t] : t \in PageTexts}
        \cup {[raises |-> TRUE, page_text |-> <<>>]}

\* A marker numbered from 0.
PageMarkerZeroBased(i) ==
    <<"\n", "-", "-", "-", " ", "P", "a", "g", "e", " ">>
        \o DecStr(i) \o <<" ", "-", "-", "-", "\n">>

\* f"\n--- Page {i+1} ---\n"
PageMarker(i) ==
    <<"\n", "-", "-", "-", " ", "P", "a", "g", "e", " ">>
        \o DecStr(i + 1) \o <<" ", "-", "-", "-", "\n">>

\* "if page_text:"
Truthy(s) == s # <<>>

\* A handle closed only on the normal path, as by a file.close() after the
\* loop: it stays open when an exception unwinds.
WithExitLeak(raised) == raised

\* Whether the handle is open after control leaves the with block, normally
\* or by an exception (raised): the context manager closes it either way.
WithExit(raised) == FALSE

\* text = ""; with open(pdf_path, "rb") as file: pdf_reader = PdfReader(file)
ExtractOpen ==
    /\ pc = "start"
    /\ text' = <<>>
    /\ file_open' = TRUE
    /\ page_i' = 0
    /\ pc' = "extract_pages"
    /\ UNCHANGED <<pages, document_text, error, chunkVars, retrieveVars,
                   generated_response>>

\* One iteration of "for i, page in enumerate(pdf_reader.pages)".  An
\* exception of page.extract_text() is not caught: it leaves the with block
\* and the function, and ends the run.
ExtractPage ==
    /\ pc = "extract_pages"
    /\ page_i < Len(pages)
    /\ LET page == pages[page_i + 1]
       IN  IF page.raises
           THEN /\ file_open' = WithExit(TRUE)
                /\ error' = "PageError"
                /\ pc' = "failed"
                /\ UNCHANGED <<text, page_i>>
           ELSE /\ text' = IF Truthy(page.page_text)
                           THEN text \o PageMarker(page_i) \o page.page_text
                           ELSE text
                /\ page_i' = page_i + 1
                /\ UNCHANGED <<file_open, error, pc>>
    /\ UNCHANGED <<pages, document_text, chunkVars, retrieveVars,
                   generated_response>>

\* The pages are exhausted: leave the with block, return text, and
\* document_text = extract_text_from_pdf(pdf_path).
ExtractReturn ==
    /\ pc = "extract_pages"
    /\ page_i = Len(pages)
    /\ file_open' = WithExit(FALSE)
    /\ document_text' = text
    /\ pc' = "extract_returned"
    /\ UNCHANGED <<pages, page_i, text, error, chunkVars, retrieveVars,
                   generated_response>>

-----------------------------------------------------------------------------
(* The index cell and retrieve_relevant_chunks *)

\* The vectors the embedder can produce.
Vec == [1..EmbDim -> 0..MaxCoord]

Range(s) == {s[j] : j \in 1..Len(s)}

RECURSIVE SumSq(_, _, _)
SumSq(u, v, d) ==
    IF d = 0 THEN 0 ELSE (u[d] - v[d]) * (u[d] - v[d]) + SumSq(u, v, d - 1)

\* The squared Euclidean distance IndexFlatL2 ranks by.
L2(u, v) == SumSq(u, v, Len(u))

\* The number of indexed vectors that come before vector i (1-based) in a
\* farthest-first order.
RankFarthest(idx, q, i) ==
    Cardinality({l \in 1..Len(idx) :
        \/ L2(idx[l], q) > L2(idx[i], q)
        \/ L2(idx[l], q) = L2(idx[i], q) /\ l < i})

\* The number of indexed vectors that come before vector i (1-based) in the
\* order of the search: nearer first, equal distances by insertion order.
Rank(idx, q, i) ==
    Cardinality({l \in 1..Len(idx) :
        \/ L2(idx[l], q) < L2(idx[i], q)
        \/ L2(idx[l], q) = L2(idx[i], q) /\ l < i})

\* A search that lists the farthest vectors first.
SearchFarthest(idx, q, kk) ==
    [j \in 1..kk |->
        IF j <= Len(idx)
        THEN (CHOOSE i \in 1..Len(idx) : RankFarthest(idx, q, i) = j - 1) - 1
        ELSE -1]

\* index.search(q, kk)[1][0]: the 0-based labels of the kk nearest vectors,
\* nearest first; a slot with no result (kk > ntotal) holds the label -1.
Search(idx, q, kk) ==
    [j \in 1..kk |->
        IF j <= Len(idx)
        THEN (CHOOSE i \in 1..Len(idx) : Rank(idx, q, i) = j - 1) - 1
        ELSE -1]

\* The cell "Generate Embeddings & Build FAISS Index".  The embedder is a
\* function of the chunk's string.  For an empty chunk list encode returns an
\* empty one-dimensional array, and chunk_embeddings.shape[1] is an IndexError.
BuildIndex ==
    /\ pc = "chunk_returned"
    /\ IF chunks = <<>>
       THEN /\ chunk_embeddings' = <<>>
            /\ error' = "IndexError"
            /\ pc' = "failed"
            /\ UNCHANGED index
       ELSE /\ \E encode \in [Range(chunks) -> Vec] :
                 /\ chunk_embeddings' = [j \in 1..Len(chunks) |-> encode[chunks[j]]]
                 /\ index' = chunk_embeddings'
            /\ pc' = "indexed"
            /\ UNCHANGED error
    /\ UNCHANGED <<extractVars, document_text, chunkVars, k, query_embedding,
                   indices, retrieved_chunks, generated_response>>

\* retrieve_relevant_chunks(query, embedder, index, chunks, k)
Retrieve ==
    /\ pc = "indexed"
    /\ \E q \in Vec :
          /\ query_embedding' = q
          /\ indices' = Search(index, q, k)
    /\ IF \A j \in 1..k : PyInRange(chunks, indices'[j])
       THEN /\ retrieved_chunks' = [j \in 1..k |-> PyGet(chunks, indices'[j])]
            /\ pc' = "retrieved"
            /\ UNCHANGED error
       ELSE /\ error' = "IndexError"
            /\ pc' = "failed"
            /\ UNCHANGED retrieved_chunks
    /\ UNCHANGED <<extractVars, document_text, chunkVars, chunk_embeddings,
                   index, k, generated_response>>

-----------------------------------------------------------------------------
(* The generation cell *)

Query ==
    <<"W", "h", "a", "t", " ", "i", "s", " ", "t", "h", "e", " ", "m", "a",
      "i", "n", " ", "i", "d", "e", "a", " ", "b", "e", "h", "i", "n", "d",
      " ", "G", "e", "n", "e", "r", "a", "l", " ", "R", "e", "l", "a", "t",
      "i", "v", "i", "t", "y", "?">>

\* f"Context: {context}\n\nQuery: {query}\nAnswer:" with
\* context = "\n".join(relevant_chunks)
Prompt(relevant, query) ==
    <<"C", "o", "n", "t", "e", "x", "t", ":", " ">>
        \o StrJoin(<<"\n">>, relevant)
        \o <<"\n", "\n", "Q", "u", "e", "r", "y", ":", " ">>
        \o query
        \o <<"\n", "A", "n", "s", "w", "e", "r", ":">>

\* What the sampling model may add to the prompt (do_sample=True).
Completions == { <<>>, <<" ", "a">>, <<" ", "b", ".">> }

\* generator(prompt, max_new_tokens=50, do_sample=True, truncation=True):
\* the generated text is the prompt followed by the sampled completion.
Generate ==
    /\ pc = "retrieved"
    /\ \E c \in Completions :
          generated_response' = Prompt(retrieved_chunks, Query) \o c
    /\ pc' = "generated"
    /\ UNCHANGED <<extractVars, document_text, error, chunkVars, retrieveVars>>

-----------------------------------------------------------------------------
(* chunk_text on its own: every text over a small alphabet, every window. *)

\* The pieces a text is made of: they give single- and two-letter words,
\* runs of whitespace, leading and trailing whitespace, and both kinds of
\* whitespace character.
Units == { <<"a", " ">>, <<"b", "\n">>, <<" ", "a", "b">> }

RECURSIVE SeqsUpTo(_, _)
\* The sequences over S of length at most n.
SeqsUpTo(S, n) ==
    IF n = 0 THEN {<<>>}
    ELSE LET shorter == SeqsUpTo(S, n - 1)
         IN  shorter \cup {Append(q, x) : q \in {r \in shorter : Len(r) = n - 1}, x \in S}

Texts == {Concat(us) : us \in SeqsUpTo(Units, MaxUnits)}

InitChunk ==
    /\ pc = "extract_returned"
    /\ pages = <<>>
    /\ file_open = FALSE
    /\ page_i = 0
    /\ text = <<>>
    /\ document_text \in Texts
    /\ error = "none"
    /\ chunk_size \in 1..MaxW
    /\ overlap \in 0..MaxO
    /\ words = <<>>
    /\ chunks = <<>>
    /\ start = 0
    /\ chunk_embeddings = <<>>
    /\ index = <<>>
    /\ k = PipelineK
    /\ query_embedding = <<>>
    /\ indices = <<>>
    /\ retrieved_chunks = <<>>
    /\ generated_response = <<>>

NextChunk == ChunkCall \/ ChunkLoop \/ ChunkReturn

SpecChunk == InitChunk /\ [][NextChunk]_vars

SpecChunkFair == InitChunk /\ [][NextChunk]_vars /\ WF_vars(NextChunk)

-----------------------------------------------------------------------------
(* The index cell and retrieve_relevant_chunks on their own: every short    *)
(* list of chunks, every embedder into Vec, every query vector, every k.    *)

\* Chunks as chunk_text makes them: words joined by single spaces.
ChunkPool == { <<"a">>, <<"b">>, <<"a", " ", "b">> }

InitRetrieve ==
    /\ pc = "chunk_returned"
    /\ pages = <<>>
    /\ file_open = FALSE
    /\ page_i = 0
    /\ text = <<>>
    /\ document_text = <<>>
    /\ error = "none"
    /\ chunk_size = PipelineChunkSize
    /\ overlap = PipelineOverlap
    /\ words = <<>>
    /\ chunks \in SeqsUpTo(ChunkPool, MaxN)
    /\ start = 0
    /\ chunk_embeddings = <<>>
    /\ index = <<>>
    /\ k \in 1..MaxK
    /\ query_embedding = <<>>
    /\ indices = <<>>
    /\ retrieved_chunks = <<>>
    /\ generated_response = <<>>

NextRetrieve == BuildIndex \/ Retrieve

SpecRetrieve == InitRetrieve /\ [][NextRetrieve]_vars

-----------------------------------------------------------------------------
(* The notebook run top to bottom on a PDF. *)

Init ==
    /\ pc = "start"
    /\ pages \in SeqsUpTo(PageOutcomes, MaxPages)
    /\ file_open = FALSE
    /\ page_i = 0
    /\ text = <<>>
    /\ document_text = <<>>
    /\ error = "none"
    /\ chunk_size = PipelineChunkSize
    /\ overlap = PipelineOverlap
    /\ words = <<>>
    /\ chunks = <<>>
    /\ start = 0
    /\ chunk_embeddings = <<>>
    /\ index = <<>>
    /\ k = PipelineK
    /\ query_embedding = <<>>
    /\ indices = <<>>
    /\ retrieved_chunks = <<>>
    /\ generated_response = <<>>

Next ==
    \/ ExtractOpen
    \/ ExtractPage
    \/ ExtractReturn
    \/ ChunkCall
    \/ ChunkLoop
    \/ ChunkReturn
    \/ BuildIndex
    \/ Retrieve
    \/ Generate

Spec == Init /\ [][Next]_vars

-----------------------------------------------------------------------------
(* Properties of chunk_text. *)

ChunkDone == pc = "chunk_returned"

\* The call is one the contract allows: 0 < overlap < chunk_size.
ValidWO == 0 < overlap /\ overlap < chunk_size

\* The word count of the input.
WordCount == Len(StrSplit(document_text))

\* The number of words of a chunk, read back from the chunk's string.
ChunkLen(c) == Len(StrSplit(c))

RECURSIVE CollapseFrom(_, _, _)
CollapseFrom(cs, ov, j) ==
    IF j > Len(cs) THEN <<>>
    ELSE LET w == StrSplit(cs[j])
             shared == IF j = 1 THEN 0 ELSE Min(ov, Len(w))
         IN  SubSeq(w, shared + 1, Len(w)) \o CollapseFrom(cs, ov, j + 1)

\* The chunks read in order with overlaps collapsed: the first chunk in full,
\* and of each later chunk the words after those it shares with the one before
\* (its first ov words, or all of them when it has fewer).
CollapseOverlaps(cs, ov) == CollapseFrom(cs, ov, 1)

\* C1: for a non-empty word sequence and 0 < O < W, the chunks returned, read
\* in order with overlaps collapsed, are exactly the words of text.split().
C1_Reconstructs ==
    (ChunkDone /\ ValidWO /\ WordCount > 0)
        => CollapseOverlaps(chunks, overlap) = StrSplit(document_text)

\* A run of at least three chunks whose last chunk is shorter than the overlap.
C1_Witness ==
    /\ ChunkDone /\ ValidWO
    /\ Len(chunks) >= 3
    /\ ChunkLen(chunks[Len(chunks)]) < overlap

\* C2 as stated: ceil((n - O) / (W - O)) chunks when n > W, one chunk when
\* 0 < n <= W.
C2_CountAsStated ==
    (ChunkDone /\ ValidWO)
        => /\ WordCount > chunk_size
              => Len(chunks) = CeilDiv(WordCount - overlap, chunk_size - overlap)
           /\ (0 < WordCount /\ WordCount <= chunk_size) => Len(chunks) = 1

\* C2 as amended: for 0 < O < W and n > 0 words the number of chunks is
\* ceil(n / (W - O)), which is never less than the stated count.
C2_CountCeil ==
    (ChunkDone /\ ValidWO /\ WordCount > 0)
        => /\ Len(chunks) = CeilDiv(WordCount, chunk_size - overlap)
           /\ Len(chunks) >= IF WordCount > chunk_size
                             THEN CeilDiv(WordCount - overlap, chunk_size - overlap)
                             ELSE 1

\* A text longer than the window that gives more chunks than the stated count.
C2_Witness ==
    /\ ChunkDone /\ ValidWO
    /\ WordCount > chunk_size
    /\ Len(chunks) > CeilDiv(WordCount - overlap, chunk_size - overlap)

\* C3 as stated, for a text with at least one word: called with O >= W,
\* chunk_text produces no chunk and does not return normally (it ends in a
\* configuration error).
C3_RejectsBadOverlap ==
    (overlap >= chunk_size /\ WordCount > 0
        /\ pc \in {"chunk_loop", "chunk_returned"})
        => (chunks = <<>> /\ pc # "chunk_returned")

\* C4 as stated: every chunk but the last has exactly W words.
C4_OnlyLastShort ==
    (ChunkDone /\ ValidWO)
        => \A j \in 1..(Len(chunks) - 1) : ChunkLen(chunks[j]) = chunk_size

\* C4 as amended: the j-th chunk (from 0) has min(W, n - j*(W - O)) words, so
\* a chunk whose window lies within the text has exactly W words and every
\* other chunk is a non-empty run of fewer than W words ending at the last
\* word of the text; there may be several such chunks, not only the last.
C4_ChunkLengths ==
    (ChunkDone /\ ValidWO)
        => \A j \in 1..Len(chunks) :
              LET s == (j - 1) * (chunk_size - overlap)
                  w == StrSplit(chunks[j])
                  all == StrSplit(document_text)
              IN  /\ Len(w) = Min(chunk_size, WordCount - s)
                  /\ Len(w) >= 1
                  /\ Len(w) < chunk_size
                        => w = SubSeq(all, Len(all) - Len(w) + 1, Len(all))

\* A chunk that is not the last one and has fewer than W words.
C4_Witness ==
    /\ ChunkDone /\ ValidWO
    /\ \E j \in 1..(Len(chunks) - 1) : ChunkLen(chunks[j]) < chunk_size

\* C10: for 0 < O < W (any text, the empty one included) each iteration moves
\* start forward by W - O > 0, an iteration runs only while start is below the
\* word count, the loop is left at once when it is not, at most one chunk per
\* word is produced, and the call returns.
C10_LoopTerminates ==
    /\ [][(ValidWO /\ pc = "chunk_loop")
            => /\ pc' = "chunk_loop"
                  => /\ start < Len(words)
                     /\ start' = start + (chunk_size - overlap)
                     /\ start' > start
               /\ start >= Len(words) => pc' = "chunk_returned"]_vars
    /\ [](ValidWO => Len(chunks) <= WordCount)
    /\ <>(~ValidWO \/ pc = "chunk_returned")

\* A call that returned after several iterations with start past the end.
C10_Witness ==
    /\ ChunkDone /\ ValidWO
    /\ Len(chunks) >= 2
    /\ start > Len(words)

-----------------------------------------------------------------------------
(* Properties of retrieve_relevant_chunks. *)

\* The embedding of a chunk string: that of any position holding it.
EmbeddingOf(c) ==
    chunk_embeddings[CHOOSE i \in 1..Len(chunks) : chunks[i] = c]

\* The distance between a chunk's embedding and the query embedding.
QueryDistance(c) == L2(EmbeddingOf(c), query_embedding)

\* C5: with 1 <= k <= N, retrieval returns exactly k chunks, each one a chunk
\* of the indexed sequence, in order of non-decreasing distance between its
\* embedding and the query embedding.
C5_KNearestInOrder ==
    (pc = "retrieved" /\ 1 <= k /\ k <= Len(chunks))
        => /\ Len(retrieved_chunks) = k
           /\ \A j \in 1..k : retrieved_chunks[j] \in Range(chunks)
           /\ \A j \in 1..(k - 1) :
                 QueryDistance(retrieved_chunks[j])
                     <= QueryDistance(retrieved_chunks[j + 1])

\* A retrieval of all of at least two chunks that reorders them: the first
\* chunk of the sequence is strictly farther from the query than the nearest.
C5_Witness ==
    /\ pc = "retrieved"
    /\ k = Len(chunks) /\ k >= 2
    /\ QueryDistance(retrieved_chunks[1]) < QueryDistance(chunks[1])
    /\ QueryDistance(retrieved_chunks[1]) < QueryDistance(retrieved_chunks[k])

\* C6 as stated: with k > N a call that returns returns exactly N chunks.
C6_ClampsToN ==
    (pc = "retrieved" /\ k > Len(chunks))
        => Len(retrieved_chunks) = Len(chunks)

-----------------------------------------------------------------------------
(* Properties of extract_text_from_pdf. *)

\* extract_text_from_pdf is no longer running.
ExtractOver == pc \notin {"start", "extract_pages"}

NoPageRaises(ps) == \A j \in 1..Len(ps) : ~ps[j].raises

\* The marker of the page at 1-indexed position n.
MarkerOfPage(n) ==
    <<"\n", "-", "-", "-", " ", "P", "a", "g", "e", " ">>
        \o <<DigitChar(n)>> \o <<" ", "-", "-", "-", "\n">>

\* For each page that yields non-empty text, in page order, its marker and
\* its text; nothing for any other page.
MarkedPages(ps) ==
    Concat([j \in 1..Len(ps) |->
        IF ~ps[j].raises /\ ps[j].page_text # <<>>
        THEN MarkerOfPage(j) \o ps[j].page_text
        ELSE <<>>])

\* The number of occurrences of character c in string s.
CountChar(s, c) == Cardinality({j \in 1..Len(s) : s[j] = c})

\* C7: when every page yields text, empty or not, the returned string is, for
\* each page with non-empty text in page order, the marker "--- Page N ---"
\* (N counting the empty pages too) followed by the page's text, with exactly
\* one marker per such page and nothing for an empty page.
C7_MarkersAndTexts ==
    (ExtractOver /\ NoPageRaises(pages))
        => /\ error # "PageError"
           /\ document_text = MarkedPages(pages)
           /\ CountChar(document_text, "P")
                 = Cardinality({j \in 1..Len(pages) : pages[j].page_text # <<>>})

\* A PDF with an empty page before a page with text, extracted.
C7_Witness ==
    /\ pc = "extract_returned"
    /\ NoPageRaises(pages)
    /\ \E j \in 2..Len(pages) :
          pages[j - 1].page_text = <<>> /\ pages[j].page_text # <<>>

\* C8 as stated: when extraction raises on a page, no error reaches the
\* caller and the returned string holds the markers and texts of all other
\* non-empty pages.
C8_FailureSwallowed ==
    (ExtractOver /\ ~NoPageRaises(pages))
        => /\ error # "PageError"
           /\ document_text = MarkedPages(pages)

\* C9: the handle is open only while extract_text_from_pdf is reading pages:
\* once it has finished, by returning or by an error of a page, the handle is
\* closed, and chunking, indexing, retrieval and generation never run with it
\* open.
C9_HandleScoped ==
    /\ file_open => pc = "extract_pages"
    /\ ExtractOver => ~file_open

\* extract_text_from_pdf left through the error of a page after reading at
\* least one page, and the handle is closed.
C9_Witness ==
    /\ pc = "failed" /\ error = "PageError"
    /\ page_i >= 1
    /\ ~file_open

-----------------------------------------------------------------------------
(* The chunks chunk_text returns, position by position. *)

\* The call has a positive step: 0 <= overlap < chunk_size.
PositiveStep == 0 <= overlap /\ overlap < chunk_size

\* The words of the input at 0-based positions lo up to but excluding hi.
WordsBetween(lo, hi) == SubSeq(StrSplit(document_text), lo + 1, hi)

\* C11: for n >= 0 words and 0 <= O < W, chunk_text returns exactly
\* ceil(n / (W - O)) chunks; the j-th (from 0) is the words at positions
\* j*(W - O) up to but excluding min(j*(W - O) + W, n), joined by single
\* spaces; so every chunk is non-empty and has at most W words, and the empty
\* text gives the empty sequence.
C11_ChunksByPosition ==
    (ChunkDone /\ PositiveStep)
        => /\ Len(chunks) = CeilDiv(WordCount, chunk_size - overlap)
           /\ \A j \in 0..(Len(chunks) - 1) :
                 LET lo == j * (chunk_size - overlap)
                     hi == Min(lo + chunk_size, WordCount)
                 IN  /\ chunks[j + 1] = StrJoin(<<" ">>, WordsBetween(lo, hi))
                     /\ chunks[j + 1] # <<>>
                     /\ StrSplit(chunks[j + 1]) = WordsBetween(lo, hi)
                     /\ 1 <= hi - lo /\ hi - lo <= chunk_size
           /\ WordCount = 0 => chunks = <<>>

\* A call without overlap that returned at least two chunks, the last one
\* shorter than the window.
C11_Witness ==
    /\ ChunkDone
    /\ overlap = 0
    /\ Len(chunks) >= 2
    /\ ChunkLen(chunks[Len(chunks)]) < chunk_size

====
